---- MODULE Spec2Model ----
(***************************************************************************)
(* go-outlook: the request path of Client (outlook.go) and Session         *)
(* (session.go).  One caller drives a verb call through                    *)
(*   Session.query -> Client.NewRequest -> Client.Do [-> Session.Send]     *)
(* one code position at a time, while other goroutines sharing the Client  *)
(* may run SetMediaType and NewSession between any two positions.          *)
(*                                                                         *)
(* Strings that are computed on (paths, query strings, URLs) are sequences *)
(* of one-character strings.  Errors are records of one shape, whose       *)
(* fields are the values the code formats into the error text.             *)
(***************************************************************************)
EXTENDS Integers, Sequences, FiniteSets, TLC

VARIABLES
    defn,            \* which of the two definitions of Session.query the build holds
    mediaType,       \* Client.mediaType
    sessions,        \* the Sessions constructed so far, in order of construction
    tokenCalls,      \* invocations of client.tokenSource.Token()
    newSessionCalls, \* calls of NewSession
    pc,              \* the caller's position
    op,              \* the method called: Get, Post, Patch, Delete or Send
    self,            \* index in sessions of the Session the method was called on
    urlPath,         \* the path argument of Session.query
    params,          \* the params argument of Session.query
    path,            \* the path argument of NewRequest
    body,            \* the body argument of NewRequest
    sink,            \* the result argument of Do (v)
    req,             \* the *http.Request being built / sent
    resp,            \* the *http.Response of the round trip
    err,             \* Do's local variable err
    ret,             \* the values handed to the caller by the return statement
    sinkWritten,     \* whether Do wrote into the sink
    closeCount,      \* calls of response.Body.Close() in this call
    transportCalls   \* calls of client.client.Do in this call

shared == <<defn, mediaType, sessions, tokenCalls, newSessionCalls>>
frame  == <<pc, op, self, urlPath, params, path, body, sink, req, resp, err, ret, sinkWritten,
            closeCount, transportCalls>>
vars   == <<defn, mediaType, sessions, tokenCalls, newSessionCalls,
            pc, op, self, urlPath, params, path, body, sink, req, resp, err, ret, sinkWritten,
            closeCount, transportCalls>>

----------------------------------------------------------------------------
(* Bounds *)

MaxNewSession == 2
MaxPathLen == 4

----------------------------------------------------------------------------
(* Constants of the program *)

StatusAccepted == 202

JSON == "application/json"
FORM == "application/x-www-form-urlencoded"
mediaTypeDefault == JSON
MediaTypes == {JSON, FORM, "text/plain"}

DefaultBaseURL == <<"https://graph.microsoft.com/v1.0">>
basePath == <<"/", "m", "e">>
sendMailEndpoint == <<"/", "s", "e", "n", "d", "M", "a", "i", "l">>

----------------------------------------------------------------------------
(* Values *)

PathChars == {"/", "x", ".", "%"}   \* "%" is never followed by two hex digits
HexDigits == {"0", "1", "2", "3", "4", "5", "6", "7", "8", "9",
              "a", "b", "c", "d", "e", "f", "A", "B", "C", "D", "E", "F"}

Nil == [kind |-> "nil", status |-> 0, msg |-> "", cause |-> ""]
Error(k, c) == [kind |-> k, status |-> 0, msg |-> "", cause |-> c]
ErrNoAccessToken == Error("ErrNoAccessToken", "")

NoReq  == [method |-> "", url |-> <<>>, contentType |-> "", accept |-> "",
           body |-> "", auth |-> ""]
NoResp == [status |-> 0, content |-> "", closeFails |-> FALSE, strict |-> FALSE]
NoRet  == [resp |-> FALSE, err |-> Nil]

NilParams == [isNil |-> TRUE, pairs |-> <<>>]
Params(ps) == [isNil |-> FALSE, pairs |-> ps]

(* What the token source can yield. *)
Tokens == {[AccessToken |-> "",     RefreshToken |-> ""],
           [AccessToken |-> "tokA", RefreshToken |-> "refA"]}

(* Body arguments: nil, a JSON-encodable value that is not url.Values, a   *)
(* url.Values, and a value encoding/json rejects (a channel, a func).      *)
Bodies == {"nil", "struct", "values", "chan"}

(* Result sinks: nil, an io.Writer, any other value (JSON-decoded into). *)
Sinks == {"nil", "writer", "value"}

(* Responses a round trip can deliver.  content: the body bytes (empty, the *)
(* JSON object {"message":"invalid recipient"}, or bytes that are not      *)
(* JSON).  closeFails: Body.Close() returns an error.  strict: the body    *)
(* rejects reads after Close, as net/http's own bodies do; a body whose    *)
(* Close does nothing (io.NopCloser) still reads.                          *)
Statuses == {200, 202, 300, 404}
Contents == {"empty", "message", "garbage"}
Message == "invalid recipient"
Responses == [status : Statuses, content : Contents,
              closeFails : BOOLEAN, strict : BOOLEAN]

----------------------------------------------------------------------------
(* Strings *)

HasSuffix(s, c) == Len(s) > 0 /\ s[Len(s)] = c

(* strings.Split(s, "/") *)
RECURSIVE SplitSlash(_)
SplitSlash(s) ==
    IF \A i \in 1..Len(s) : s[i] # "/" THEN <<s>>
    ELSE LET k == CHOOSE i \in 1..Len(s) :
                      s[i] = "/" /\ \A j \in 1..(i-1) : s[j] # "/"
         IN <<SubSeq(s, 1, k-1)>> \o SplitSlash(SubSeq(s, k+1, Len(s)))

(* strings.Join(segs, "/") *)
RECURSIVE JoinSlash(_)
JoinSlash(segs) ==
    IF segs = <<>> THEN <<>>
    ELSE IF Len(segs) = 1 THEN segs[1]
    ELSE segs[1] \o <<"/">> \o JoinSlash(Tail(segs))

(* path.Clean of a rooted path: empty and "." elements go, ".." removes   *)
(* the element before it, ".." at the root goes.                          *)
RECURSIVE CleanSegs(_, _)
CleanSegs(segs, out) ==
    IF segs = <<>> THEN out
    ELSE LET s == Head(segs) IN
         IF s = <<>> \/ s = <<".">> THEN CleanSegs(Tail(segs), out)
         ELSE IF s = <<".", ".">>
              THEN CleanSegs(Tail(segs),
                             IF out = <<>> THEN out ELSE SubSeq(out, 1, Len(out)-1))
              ELSE CleanSegs(Tail(segs), Append(out, s))

CleanRooted(p) == <<"/">> \o JoinSlash(CleanSegs(SplitSlash(p), <<>>))

(* path.Join(a, b) for a rooted, non-empty a: empty elements are ignored. *)
pathJoin(a, b) == CleanRooted(IF b = <<>> THEN a ELSE a \o <<"/">> \o b)

(* unescape(s, encodePath) fails on a "%" not followed by two hex digits. *)
ValidEscapes(s) ==
    \A i \in 1..Len(s) :
        s[i] = "%" => /\ i + 2 <= Len(s)
                      /\ s[i+1] \in HexDigits
                      /\ s[i+2] \in HexDigits

(* URL.JoinPath on the parsed base path, then String() of the path:       *)
(* setPath's error is dropped, and the path then stays the receiver's.    *)
JoinPath(base, elem) ==
    LET j == pathJoin(base, elem)
        p == IF HasSuffix(elem, "/") /\ ~HasSuffix(j, "/") THEN j \o <<"/">> ELSE j
    IN IF ValidEscapes(p) THEN p ELSE base

(* url.Values.Encode: key=value pairs joined by "&".                      *)
RECURSIVE Encode(_)
Encode(pairs) ==
    IF pairs = <<>> THEN <<>>
    ELSE <<pairs[1][1], "=", pairs[1][2]>>
         \o (IF Len(pairs) > 1 THEN <<"&">> ELSE <<>>) \o Encode(Tail(pairs))

createQueryString(ps) == Encode(ps.pairs)

(* Session.query, first definition: the path handed to NewRequest.        *)
queryPathJoin(url, ps) ==
    LET queryString == IF ps.isNil THEN <<>> ELSE createQueryString(ps)
        joined == JoinPath(basePath, url)
    IN IF queryString # <<>> THEN joined \o <<"?">> \o queryString ELSE joined

(* Session.query, second definition. *)
queryPathSprintf(url, ps) ==
    LET queryString == IF ps.isNil THEN <<>> ELSE createQueryString(ps)
    IN basePath \o url \o queryString

queryPath(d, url, ps) ==
    IF d = 1 THEN queryPathJoin(url, ps) ELSE queryPathSprintf(url, ps)

(* url.Parse: the part before "?" must unescape. *)
PathPart(s) ==
    IF \A i \in 1..Len(s) : s[i] # "?" THEN s
    ELSE SubSeq(s, 1, (CHOOSE i \in 1..Len(s) :
                          s[i] = "?" /\ \A j \in 1..(i-1) : s[j] # "?") - 1)

urlParseOK(s) == ValidEscapes(PathPart(s))

(* URL.Hostname() is non-empty: the string starts "//host". *)
HasHost(s) == Len(s) >= 3 /\ s[1] = "/" /\ s[2] = "/" /\ s[3] \notin {"/", "?"}

fullURL(p) == IF HasHost(p) THEN p ELSE DefaultBaseURL \o p

----------------------------------------------------------------------------
(* Construction *)

(* NewClient(opts...): the defaults, then the options (SetClientMediaType); *)
(* no Session yet, no call in progress.  Spec follows the first definition *)
(* of Session.query, the one Send belongs to; SpecPath covers both.        *)
IdleFrame ==
    /\ pc = "idle" /\ op = "" /\ self = 0 /\ urlPath = <<>> /\ params = NilParams
    /\ path = <<>> /\ body = "nil"
    /\ sink = "nil" /\ req = NoReq /\ resp = NoResp /\ err = Nil /\ ret = NoRet
    /\ sinkWritten = FALSE /\ closeCount = 0 /\ transportCalls = 0

Init ==
    /\ defn = 1
    /\ mediaType \in MediaTypes
    /\ sessions = <<>>
    /\ tokenCalls = 0
    /\ newSessionCalls = 0
    /\ IdleFrame

(* NewSession(client): one Token() call; its error is returned as is. *)
NewSession ==
    /\ newSessionCalls < MaxNewSession
    /\ newSessionCalls' = newSessionCalls + 1
    /\ tokenCalls' = tokenCalls + 1
    /\ \/ UNCHANGED sessions
       \/ \E token \in Tokens :
            sessions' = Append(sessions, [basePath     |-> basePath,
                                          accessToken  |-> token.AccessToken,
                                          refreshToken |-> token.RefreshToken])
    /\ UNCHANGED <<defn, mediaType>>
    /\ UNCHANGED frame

(* Client.SetMediaType, run by another goroutine sharing the Client. *)
SetMediaType ==
    /\ \E mType \in MediaTypes \ {mediaType} : mediaType' = mType
    /\ UNCHANGED <<defn, sessions, tokenCalls, newSessionCalls>>
    /\ UNCHANGED frame

----------------------------------------------------------------------------
(* Session: the verbs *)

AfterQuery(o) == IF o = "Send" THEN "Send" ELSE "returned"

(* Variant of query: the empty-token check made before the request is    *)
(* constructed.                                                           *)
queryTokenFirst(o, method, s, url, ps, data, result) ==
    /\ pc = "idle"
    /\ s \in 1..Len(sessions)
    /\ op' = o
    /\ self' = s
    /\ urlPath' = url
    /\ params' = ps
    /\ path' = queryPath(defn, url, ps)
    /\ body' = data
    /\ sink' = result
    /\ IF sessions[s].accessToken = ""
       THEN /\ pc' = AfterQuery(o)
            /\ req' = NoReq
            /\ ret' = [resp |-> FALSE, err |-> ErrNoAccessToken]
       ELSE /\ pc' = "NewRequest"
            /\ req' = [NoReq EXCEPT !.method = method]
            /\ ret' = NoRet
    /\ resp' = NoResp /\ err' = Nil
    /\ sinkWritten' = FALSE /\ closeCount' = 0 /\ transportCalls' = 0
    /\ UNCHANGED shared

(* Session.query up to its call of NewRequest: the path is built. *)
query(o, method, s, url, ps, data, result) ==
    /\ pc = "idle"
    /\ s \in 1..Len(sessions)
    /\ pc' = "NewRequest"
    /\ op' = o
    /\ self' = s
    /\ urlPath' = url
    /\ params' = ps
    /\ path' = queryPath(defn, url, ps)
    /\ body' = data
    /\ sink' = result
    /\ req' = [NoReq EXCEPT !.method = method]
    /\ resp' = NoResp /\ err' = Nil /\ ret' = NoRet
    /\ sinkWritten' = FALSE /\ closeCount' = 0 /\ transportCalls' = 0
    /\ UNCHANGED shared

Paths == {<<"/", "x">>}
ParamMaps == {NilParams, Params(<<<<"k", "v">>>>)}

Get ==
    \E s \in 1..Len(sessions), url \in Paths, ps \in ParamMaps, result \in Sinks :
        query("Get", "GET", s, url, ps, "nil", result)

Post ==
    \E s \in 1..Len(sessions), url \in Paths, data \in Bodies, result \in Sinks :
        query("Post", "POST", s, url, NilParams, data, result)

Patch ==
    \E s \in 1..Len(sessions), url \in Paths, data \in Bodies, result \in Sinks :
        query("Patch", "PATCH", s, url, NilParams, data, result)

Delete ==
    \E s \in 1..Len(sessions), url \in Paths, ps \in ParamMaps, result \in Sinks :
        query("Delete", "DELETE", s, url, ps, "nil", result)

(* Session.Send exists in the first definition only: POST /sendMail with   *)
(* the map {"message": message} as body and no result sink.               *)
Send ==
    /\ defn = 1
    /\ \E s \in 1..Len(sessions) :
        query("Send", "POST", s, sendMailEndpoint, NilParams, "struct", "nil")

----------------------------------------------------------------------------
(* Client.NewRequest *)

(* The switch on client.mediaType: what the encoded body holds, or the    *)
(* error.  A media type with no case leaves the buffer empty.             *)
encodeBody(mType, data) ==
    IF data = "nil" THEN "empty"
    ELSE IF mType = JSON
         THEN (IF data = "chan" THEN "error:json" ELSE "json")
    ELSE IF mType = FORM
         THEN (IF data = "values" THEN "form" ELSE "error:form")
    ELSE "empty"

(* url.Parse(path), the choice of fullURL, and the encoding of the body,  *)
(* which reads client.mediaType.                                          *)
NewRequestEncode ==
    /\ pc = "NewRequest"
    /\ LET enc == encodeBody(mediaType, body) IN
         IF ~urlParseOK(path)
         THEN /\ ret' = [resp |-> FALSE, err |-> Error("construct", "url.Parse")]
              /\ req' = NoReq
              /\ pc' = AfterQuery(op)
         ELSE IF enc \in {"error:json", "error:form"}
         THEN /\ ret' = [resp |-> FALSE, err |-> Error("construct", enc)]
              /\ req' = NoReq
              /\ pc' = AfterQuery(op)
         ELSE /\ req' = [req EXCEPT !.url = fullURL(path), !.body = enc]
              /\ pc' = "headers"
              /\ UNCHANGED ret
    /\ UNCHANGED <<op, self, urlPath, params, path, body, sink, resp, err, sinkWritten,
                   closeCount, transportCalls>>
    /\ UNCHANGED shared

(* http.NewRequest and the three headers; Content-Type reads              *)
(* client.mediaType again.                                                *)
NewRequestHeaders ==
    /\ pc = "headers"
    /\ req' = [req EXCEPT !.contentType = mediaType, !.accept = mediaTypeDefault]
    /\ pc' = "tokenCheck"
    /\ UNCHANGED <<op, self, urlPath, params, path, body, sink, resp, err, ret, sinkWritten,
                   closeCount, transportCalls>>
    /\ UNCHANGED shared

----------------------------------------------------------------------------
(* Session.query after NewRequest returned a request *)

(* Variant of QueryAuth: no check of the access token. *)
QueryAuthNoCheck ==
    /\ pc = "tokenCheck"
    /\ req' = [req EXCEPT !.auth = sessions[self].accessToken]
    /\ pc' = "Do"
    /\ UNCHANGED <<op, self, urlPath, params, path, body, sink, resp, err, ret,
                   sinkWritten, closeCount, transportCalls>>
    /\ UNCHANGED shared

(* The empty-token check, then the Authorization header. *)
QueryAuth ==
    /\ pc = "tokenCheck"
    /\ IF sessions[self].accessToken = ""
       THEN /\ ret' = [resp |-> FALSE, err |-> ErrNoAccessToken]
            /\ pc' = AfterQuery(op)
            /\ UNCHANGED req
       ELSE /\ req' = [req EXCEPT !.auth = sessions[self].accessToken]
            /\ pc' = "Do"
            /\ UNCHANGED ret
    /\ UNCHANGED <<op, self, urlPath, params, path, body, sink, resp, err, sinkWritten,
                   closeCount, transportCalls>>
    /\ UNCHANGED shared

----------------------------------------------------------------------------
(* Client.Do *)

(* checkResponse: nil for a status in 200..299, else an error carrying    *)
(* the status code and what the body yields.                              *)
checkResponse(r) ==
    IF r.status >= 200 /\ r.status <= 299 THEN Nil
    ELSE [kind   |-> "api",
          status |-> r.status,
          msg    |-> IF r.content = "message" THEN Message ELSE "",
          cause  |-> IF r.content = "message" THEN "" ELSE "decode"]

(* client.client.Do(req): a transport error and no response, or a response. *)
DoRoundTrip ==
    /\ pc = "Do"
    /\ transportCalls' = transportCalls + 1
    /\ \/ /\ err' = Error("transport", "")
          /\ ret' = [resp |-> FALSE, err |-> Error("transport", "")]
          /\ pc' = AfterQuery(op)
          /\ UNCHANGED resp
       \/ /\ resp' \in Responses
          /\ pc' = "checkResponse"
          /\ UNCHANGED <<err, ret>>
    /\ UNCHANGED <<op, self, urlPath, params, path, body, sink, req, sinkWritten, closeCount>>
    /\ UNCHANGED shared

(* Variant of DoCheckResponse: the status error does not end Do, and the  *)
(* body goes to the sink whatever the status.                             *)
DoCheckResponseIgnored ==
    /\ pc = "checkResponse"
    /\ err' = checkResponse(resp)
    /\ pc' = "consume"
    /\ UNCHANGED <<op, self, urlPath, params, path, body, sink, req, resp, ret,
                   sinkWritten, closeCount, transportCalls>>
    /\ UNCHANGED shared

(* Variant of DoCheckResponse: on a status error the token source is asked *)
(* for a fresh token and the request is sent again.                       *)
DoCheckResponseRetry ==
    /\ pc = "checkResponse"
    /\ err' = checkResponse(resp)
    /\ IF err' # Nil
       THEN /\ tokenCalls' = tokenCalls + 1
            /\ sessions' = [sessions EXCEPT ![self].accessToken = "tokA"]
            /\ pc' = "Do"
            /\ UNCHANGED <<defn, mediaType, newSessionCalls>>
       ELSE /\ pc' = "consume"
            /\ UNCHANGED shared
    /\ UNCHANGED <<op, self, urlPath, params, path, body, sink, req, resp, ret,
                   sinkWritten, closeCount, transportCalls>>

(* err = checkResponse(response); on an error the return statement hands  *)
(* (response, err) to the caller and the deferred close runs.             *)
DoCheckResponse ==
    /\ pc = "checkResponse"
    /\ err' = checkResponse(resp)
    /\ IF err' # Nil
       THEN /\ ret' = [resp |-> TRUE, err |-> err']
            /\ pc' = "close"
       ELSE /\ pc' = "consume"
            /\ UNCHANGED ret
    /\ UNCHANGED <<op, self, urlPath, params, path, body, sink, req, resp, sinkWritten,
                   closeCount, transportCalls>>
    /\ UNCHANGED shared

(* Variant of DoConsume: the body is closed after a successful read only; *)
(* a failed copy or decode returns at once.                               *)
DoConsumeLeak ==
    /\ pc = "consume"
    /\ \/ /\ sink = "nil"
          /\ UNCHANGED <<err, sinkWritten>>
          /\ pc' = "close"
       \/ /\ sink = "writer"
          /\ \/ /\ err' = Nil
                /\ sinkWritten' = (resp.content # "empty")
                /\ pc' = "close"
             \/ /\ err' = Error("copy", "")
                /\ sinkWritten' \in {FALSE, resp.content # "empty"}
                /\ pc' = AfterQuery(op)
       \/ /\ sink = "value"
          /\ \/ /\ resp.content = "message"
                /\ err' = Nil
                /\ sinkWritten' = TRUE
                /\ pc' = "close"
             \/ /\ err' = Error("decode", "")
                /\ sinkWritten' = FALSE
                /\ pc' = AfterQuery(op)
    /\ ret' = [resp |-> TRUE, err |-> err']
    /\ UNCHANGED <<op, self, urlPath, params, path, body, sink, req, resp,
                   closeCount, transportCalls>>
    /\ UNCHANGED shared

(* The body is handed to the sink: not at all for a nil sink, by io.Copy  *)
(* for an io.Writer, by a JSON decode otherwise.  A read of the body can  *)
(* fail; a decode succeeds on a body that is JSON.                        *)
DoConsume ==
    /\ pc = "consume"
    /\ \/ /\ sink = "nil"
          /\ UNCHANGED <<err, sinkWritten>>
       \/ /\ sink = "writer"
          /\ \/ /\ err' = Nil
                /\ sinkWritten' = (resp.content # "empty")
             \/ /\ err' = Error("copy", "")
                /\ sinkWritten' \in {FALSE, resp.content # "empty"}
       \/ /\ sink = "value"
          /\ \/ /\ resp.content = "message"
                /\ err' = Nil
                /\ sinkWritten' = TRUE
             \/ /\ err' = Error("decode", "")
                /\ sinkWritten' = FALSE
    /\ ret' = [resp |-> TRUE, err |-> err']
    /\ pc' = "close"
    /\ UNCHANGED <<op, self, urlPath, params, path, body, sink, req, resp, closeCount, transportCalls>>
    /\ UNCHANGED shared

(* The deferred function: Body.Close(), and a close error assigned to the *)
(* local err.  Do's results are unnamed, so the values the return         *)
(* statement already set are what the caller gets.                        *)
DoClose ==
    /\ pc = "close"
    /\ closeCount' = closeCount + 1
    /\ err' = IF resp.closeFails THEN Error("close", "") ELSE err
    /\ pc' = AfterQuery(op)
    /\ UNCHANGED <<op, self, urlPath, params, path, body, sink, req, resp, ret, sinkWritten,
                   transportCalls>>
    /\ UNCHANGED shared

----------------------------------------------------------------------------
(* Session.Send after query returned *)

(* A read of the body after Close fails on a body that rejects it. *)
BodyReadable == ~(closeCount > 0 /\ resp.strict)

SendCheck ==
    /\ pc = "Send"
    /\ ret' = [resp |-> FALSE,
               err  |-> IF ret.err # Nil THEN ret.err
                        ELSE IF resp.status # StatusAccepted
                        THEN (IF BodyReadable /\ resp.content = "message"
                              THEN [kind |-> "send", status |-> resp.status,
                                    msg |-> Message, cause |-> ""]
                              ELSE [kind |-> "send", status |-> resp.status,
                                    msg |-> "", cause |-> "decode"])
                        ELSE Nil]
    /\ pc' = "returned"
    /\ UNCHANGED <<op, self, urlPath, params, path, body, sink, req, resp, err, sinkWritten,
                   closeCount, transportCalls>>
    /\ UNCHANGED shared

(* The caller has its result; the next call may start. *)
Return ==
    /\ pc = "returned"
    /\ pc' = "idle" /\ op' = "" /\ self' = 0 /\ urlPath' = <<>> /\ params' = NilParams
    /\ path' = <<>> /\ body' = "nil"
    /\ sink' = "nil" /\ req' = NoReq /\ resp' = NoResp /\ err' = Nil /\ ret' = NoRet
    /\ sinkWritten' = FALSE /\ closeCount' = 0 /\ transportCalls' = 0
    /\ UNCHANGED shared

----------------------------------------------------------------------------

Next ==
    \/ NewSession
    \/ SetMediaType
    \/ Get
    \/ Post
    \/ Patch
    \/ Delete
    \/ Send
    \/ NewRequestEncode
    \/ NewRequestHeaders
    \/ QueryAuth
    \/ DoRoundTrip
    \/ DoCheckResponse
    \/ DoConsume
    \/ DoClose
    \/ SendCheck
    \/ Return

Spec == Init /\ [][Next]_vars

----------------------------------------------------------------------------
(* The path of a request, over all short paths and both definitions of     *)
(* Session.query: a Session exists, Get or Delete is called with a path   *)
(* and a non-nil parameter map, and NewRequest builds the request.        *)

AllPaths == UNION {[1..n -> PathChars] : n \in 0..MaxPathLen}
NonNilParams == {Params(<<>>), Params(<<<<"k", "v">>>>),
                 Params(<<<<"a", "b">>, <<"k", "v">>>>)}

InitPath ==
    /\ defn \in {1, 2}
    /\ mediaType = mediaTypeDefault
    /\ sessions = <<[basePath |-> basePath, accessToken |-> "tokA",
                     refreshToken |-> "refA"]>>
    /\ tokenCalls = 1
    /\ newSessionCalls = 1
    /\ IdleFrame

GetPath ==
    \E url \in AllPaths, ps \in NonNilParams :
        query("Get", "GET", 1, url, ps, "nil", "value")

DeletePath ==
    \E url \in AllPaths, ps \in NonNilParams :
        query("Delete", "DELETE", 1, url, ps, "nil", "nil")

NextPath ==
    \/ GetPath
    \/ DeletePath
    \/ NewRequestEncode
    \/ NewRequestHeaders

SpecPath == InitPath /\ [][NextPath]_vars

----------------------------------------------------------------------------
(* Properties *)

Verbs == {"Get", "Post", "Patch", "Delete"}
Returned == pc = "returned"
QueryReturned == pc \in {"Send", "returned"}   \* Session.query has returned
Token == sessions[self].accessToken
Success(r) == r.status >= 200 /\ r.status <= 299

(* C1, as stated: a verb call on a Session with an empty access token      *)
(* returns ErrNoAccessToken, and the transport is never invoked.           *)
C1_EmptyTokenAlwaysNoAccessToken ==
    (Returned /\ op \in Verbs /\ Token = "")
        => (ret.err = ErrNoAccessToken /\ transportCalls = 0)

(* C1, amended: a verb call on a Session with an empty access token never  *)
(* invokes the transport; it returns ErrNoAccessToken when NewRequest      *)
(* returned a request, and NewRequest's error when it returned none.       *)
C1_EmptyTokenNoTransport ==
    (pc # "idle" /\ op \in Verbs /\ Token = "")
        => /\ transportCalls = 0
           /\ resp = NoResp
           /\ Returned => IF req = NoReq
                          THEN ret.err.kind = "construct"
                          ELSE ret.err = ErrNoAccessToken

C1_Witness ==
    /\ Returned /\ op \in Verbs /\ Token = ""
    /\ req # NoReq
    /\ ret.err = ErrNoAccessToken
    /\ transportCalls = 0

(* C2: a response with a status outside 200..299 never reaches the sink,   *)
(* neither by copy nor by decode, and Do returns a non-nil error for it,   *)
(* whatever the sink.                                                      *)
C2_NonSuccessIsErrorSinkUntouched ==
    (resp # NoResp /\ ~Success(resp))
        => /\ ~sinkWritten
           /\ QueryReturned => ret.err # Nil

C2_Witness ==
    /\ Returned /\ op \in Verbs
    /\ resp.status = 404 /\ resp.content = "message"
    /\ sink = "value"
    /\ ret.err.kind = "api"
    /\ ~sinkWritten

(* C3: once Do has returned, the body of a response the transport          *)
(* delivered has been closed exactly once, on every exit path; with no     *)
(* response (the transport failed) nothing was closed.                     *)
C3_BodyClosedExactlyOnce ==
    /\ closeCount <= 1
    /\ QueryReturned => closeCount = (IF resp # NoResp THEN 1 ELSE 0)

C3_Witness ==
    /\ Returned /\ op \in Verbs
    /\ Success(resp) /\ sink = "value"
    /\ ret.err.kind = "decode"
    /\ closeCount = 1

(* C4: when Do's status check and read of the body succeeded and the close *)
(* fails, Do returns the close error; when an earlier step failed, Do      *)
(* returns that step's error.                                              *)
C4_CloseErrorReturned ==
    (Returned /\ op \in Verbs /\ resp # NoResp /\ resp.closeFails)
        => IF ~Success(resp) THEN ret.err.kind = "api"
           ELSE IF ret.err.kind \in {"copy", "decode"} THEN TRUE
           ELSE ret.err.kind = "close"

(* C5: Send returns nil only for status 202; for any other status its      *)
(* error carries the status code and, for a body {"message": m}, m, or     *)
(* for a body that does not decode, the decode failure.                    *)
C5_SendErrorFromBody ==
    (Returned /\ op = "Send" /\ resp # NoResp)
        => /\ ret.err = Nil => resp.status = StatusAccepted
           /\ resp.status # StatusAccepted =>
                /\ ret.err.status = resp.status
                /\ IF resp.content = "message"
                   THEN ret.err.msg = Message
                   ELSE ret.err.cause = "decode"

(* C6: for a relative path p and a non-nil parameter map m the request's   *)
(* URL is the base URL, basePath, one slash, p without its leading         *)
(* slashes, "?", and the encoded parameters.  Stated for the inputs on     *)
(* which that expression is beyond dispute: p not empty, validly escaped,  *)
(* without empty segments or a trailing slash, and m not empty.            *)
TrimSlashes(p) ==
    IF \A i \in 1..Len(p) : p[i] = "/" THEN <<>>
    ELSE SubSeq(p, CHOOSE i \in 1..Len(p) :
                       p[i] # "/" /\ \A j \in 1..(i-1) : p[j] = "/", Len(p))

PlainPath(p) ==
    /\ TrimSlashes(p) # <<>>
    /\ ValidEscapes(p)
    /\ \A seg \in {SplitSlash(TrimSlashes(p))[i] :
                      i \in 1..Len(SplitSlash(TrimSlashes(p)))} : seg # <<>>

C6_PathAndQuery ==
    (pc = "tokenCheck" /\ PlainPath(urlPath) /\ ~params.isNil /\ params.pairs # <<>>)
        => req.url = DefaultBaseURL \o basePath \o <<"/">> \o TrimSlashes(urlPath)
                        \o <<"?">> \o Encode(params.pairs)

(* C7: NewRequest never returns a request with an empty body for a body    *)
(* argument that is not nil.                                               *)
C7_NoSilentEmptyBody ==
    (pc = "tokenCheck" /\ body # "nil") => req.body # "empty"

(* C8: request construction, then the empty-token check, then the          *)
(* Authorization header, then the network call.  A failed construction     *)
(* returns the construction error whatever the token; ErrNoAccessToken is  *)
(* returned for a constructed request only; a request that reached the     *)
(* transport carries the Session's non-empty access token.                 *)
C8_QueryOrder ==
    (pc # "idle") =>
        /\ (QueryReturned /\ req = NoReq) => ret.err.kind = "construct"
        /\ ret.err = ErrNoAccessToken =>
              /\ req # NoReq /\ req.contentType # ""
              /\ req.auth = ""
              /\ Token = ""
              /\ transportCalls = 0
        /\ transportCalls > 0 =>
              /\ req # NoReq /\ req.contentType # ""
              /\ req.auth = Token
              /\ req.auth # ""

C8_Witness ==
    /\ Returned /\ op \in Verbs
    /\ Token = ""
    /\ req = NoReq
    /\ ret.err.kind = "construct"

(* C9: the token source is invoked once per NewSession call and by         *)
(* nothing else; a Session, once constructed, keeps its access token; a    *)
(* call invokes the transport at most once, whatever comes back.           *)
C9_TokenOnceNoRetry ==
    [][ /\ tokenCalls' = newSessionCalls'
        /\ tokenCalls' # tokenCalls =>
              (tokenCalls' = tokenCalls + 1 /\ UNCHANGED frame)
        /\ \A i \in 1..Len(sessions) :
              i <= Len(sessions') /\ sessions'[i] = sessions[i]
        /\ transportCalls' <= 1 ]_vars

C9_Witness ==
    /\ newSessionCalls = 2 /\ tokenCalls = 2 /\ Len(sessions) = 2
    /\ Returned
    /\ transportCalls = 1
    /\ resp.status = 404
    /\ ret.err.kind = "api"

(* C10: a request returned by NewRequest names in Content-Type the media   *)
(* type its body was encoded for, also while another goroutine runs        *)
(* SetMediaType on the shared Client.                                      *)
C10_ContentTypeMatchesBody ==
    (pc = "tokenCheck") =>
        /\ req.body = "json" => req.contentType = JSON
        /\ req.body = "form" => req.contentType = FORM

====
